---- MODULE Spec2Model ----
(***************************************************************************)
(* Model of the native helpers of CourseKG (src/src/lib.rs):               *)
(*   iou, contained, structure (region-overlap deduplication) and merge    *)
(*   (sentence merging by length budget).                                  *)
(*                                                                         *)
(* Coordinates are small integers, so every f32 area is exact.  An IoU     *)
(* value is kept as the exact fraction num/den of the two f32 operands of  *)
(* the division; a threshold is a fraction with a positive denominator.    *)
(* A string is a sequence of one-character strings; the sentence           *)
(* terminator U+3002 is written ".".                                       *)
(***************************************************************************)
EXTENDS Integers, Sequences, FiniteSets, TLC

\* ---------------------------------------------------------------- bounds
MaxCoord == 2      \* coordinates range over 0..MaxCoord
MaxDets == 3       \* longest input list of structure
MaxDupDets == 4    \* longest input list of structure drawn from DupDetections
ThrDen == 2        \* thresholds are k/ThrDen, k in -1..ThrDen+1
MaxTexts == 1      \* longest input list of merge
MaxTextLen == 3    \* longest input text of merge
MaxN == 4          \* largest length limit n of merge

VARIABLES
    \* iou
    box1, box2, inter_area, box1_area, box2_area, union_area, iou_result, ipc,
    \* structure
    input, iou_threshold, detections, filtered_detections, detection,
    snapshot, scanned, keep, to_remove, iterations, pc,
    \* merge
    texts, n, chunks, current, is_first_exceed, result, forced, result_forced, mpc

iouVars == <<box1, box2, inter_area, box1_area, box2_area, union_area, iou_result, ipc>>
structureVars == <<input, iou_threshold, detections, filtered_detections, detection,
                   snapshot, scanned, keep, to_remove, iterations, pc>>
mergeVars == <<texts, n, chunks, current, is_first_exceed, result, forced,
               result_forced, mpc>>
vars == <<iouVars, structureVars, mergeVars>>

\* ------------------------------------------------------------- geometry
Coord == 0..MaxCoord

\* every quadruple of coordinates, inverted and degenerate ones included
Rects == Coord \X Coord \X Coord \X Coord

\* f32::max / f32::min on exact values
Max(a, b) == IF a >= b THEN a ELSE b
Min(a, b) == IF a <= b THEN a ELSE b

\* mutant of InterArea: the extents are multiplied without .max(0.0)
InterAreaUnclamped(b1, b2) ==
    LET x1 == Max(b1[1], b2[1])
        y1 == Max(b1[2], b2[2])
        x2 == Min(b1[3], b2[3])
        y2 == Min(b1[4], b2[4])
    IN  (x2 - x1) * (y2 - y1)

\* (x2 - x1).max(0.0) * (y2 - y1).max(0.0)
InterArea(b1, b2) ==
    LET x1 == Max(b1[1], b2[1])
        y1 == Max(b1[2], b2[2])
        x2 == Min(b1[3], b2[3])
        y2 == Min(b1[4], b2[4])
    IN  Max(x2 - x1, 0) * Max(y2 - y1, 0)

\* (box.2 - box.0) * (box.3 - box.1): the extents are not clamped
BoxArea(b) == (b[3] - b[1]) * (b[4] - b[2])

UnionArea(b1, b2) == BoxArea(b1) + BoxArea(b2) - InterArea(b1, b2)

\* the value returned by iou, as the fraction num/den (den # 0)
iou(b1, b2) ==
    IF UnionArea(b1, b2) # 0
    THEN [num |-> InterArea(b1, b2), den |-> UnionArea(b1, b2)]
    ELSE [num |-> 0, den |-> 1]

\* mutant of contained: the far edges are compared strictly
containedStrict(b1, b2) ==
    b1[1] <= b2[1] /\ b1[2] <= b2[2] /\ b1[3] > b2[3] /\ b1[4] > b2[4]

\* mutant of contained: the two rectangles change places
containedSwapped(b1, b2) ==
    b2[1] <= b1[1] /\ b2[2] <= b1[2] /\ b2[3] >= b1[3] /\ b2[4] >= b1[4]

contained(b1, b2) ==
    b1[1] <= b2[1] /\ b1[2] <= b2[2] /\ b1[3] >= b2[3] /\ b1[4] >= b2[4]

\* mutant of Gt: the comparison is the wrong way round (q < t)
GtFlipped(q, t) ==
    IF q.den > 0 THEN q.num * t.den < t.num * q.den
                 ELSE q.num * t.den > t.num * q.den

\* mutant of Gt: the comparison is not strict (q >= t)
GtOrEqual(q, t) ==
    IF q.den > 0 THEN q.num * t.den >= t.num * q.den
                 ELSE q.num * t.den <= t.num * q.den

\* q > t for a fraction q (den # 0) and a threshold t (den > 0)
Gt(q, t) ==
    IF q.den > 0 THEN q.num * t.den > t.num * q.den
                 ELSE q.num * t.den < t.num * q.den

\* ------------------------------------------------------------------ iou
IouInit ==
    /\ box1 \in Rects
    /\ box2 \in Rects
    /\ inter_area = 0
    /\ box1_area = 0
    /\ box2_area = 0
    /\ union_area = 0
    /\ iou_result = [num |-> 0, den |-> 1]
    /\ ipc = "call"

IouCall ==
    /\ ipc = "call"
    /\ inter_area' = InterArea(box1, box2)
    /\ box1_area' = BoxArea(box1)
    /\ box2_area' = BoxArea(box2)
    /\ union_area' = UnionArea(box1, box2)
    /\ iou_result' = iou(box1, box2)
    /\ ipc' = "returned"
    /\ UNCHANGED <<box1, box2>>

\* ------------------------------------------------------------ structure
Labels == {"a", "b"}

\* rectangles with positive width and height
Boxes == {r \in Rects : r[1] < r[3] /\ r[2] < r[4]}

Detections == Labels \X Boxes

Thresholds == {[num |-> k, den |-> ThrDen] : k \in (-1)..(ThrDen + 1)}

NoDetection == <<"", <<0, 0, 0, 0>>>>

\* the inner for loop over detections.clone(), from position i on;
\* coins[i] is the outcome of gen_bool(0.5) should position i draw one;
\* scanned is the number of entries the loop visited before it ended
RECURSIVE Scan(_, _, _, _, _, _)
Scan(anchor, others, thr, coins, i, marked) ==
    IF i > Len(others)
    THEN [keep |-> TRUE, to_remove |-> marked, scanned |-> Len(others)]
    ELSE LET other == others[i] IN
         IF Gt(iou(anchor[2], other[2]), thr)
         THEN IF coins[i]
              THEN Scan(anchor, others, thr, coins, i + 1, Append(marked, other))
              ELSE [keep |-> FALSE, to_remove |-> marked, scanned |-> i]
         ELSE IF contained(anchor[2], other[2])
         THEN Scan(anchor, others, thr, coins, i + 1, Append(marked, other))
         ELSE IF contained(other[2], anchor[2])
         THEN [keep |-> FALSE, to_remove |-> marked, scanned |-> i]
         ELSE Scan(anchor, others, thr, coins, i + 1, marked)

\* mutant of Retain: only the first occurrence of item is removed
RetainFirst(list, item) ==
    IF \E i \in 1..Len(list) : list[i] = item
    THEN LET k == CHOOSE i \in 1..Len(list) :
                      list[i] = item /\ \A j \in 1..(i - 1) : list[j] # item
         IN  SubSeq(list, 1, k - 1) \o SubSeq(list, k + 1, Len(list))
    ELSE list

\* detections.retain(|x| x != &item)
Retain(list, item) == SelectSeq(list, LAMBDA x : x # item)

\* for item in to_remove { detections.retain(|x| x != &item); }
RECURSIVE RemoveMarked(_, _)
RemoveMarked(list, marked) ==
    IF marked = <<>> THEN list
    ELSE RemoveMarked(Retain(list, Head(marked)), Tail(marked))

StructureInit ==
    /\ input \in UNION {[1..k -> Detections] : k \in 0..MaxDets}
    /\ iou_threshold \in Thresholds
    /\ detections = input
    /\ filtered_detections = <<>>
    /\ detection = NoDetection
    /\ snapshot = <<>>
    /\ scanned = 0
    /\ keep = TRUE
    /\ to_remove = <<>>
    /\ iterations = 0
    /\ pc = "loop"

\* a small pool for long lists with value-equal copies: three boxes of the
\* same height (one holding the other two, which touch) under each label
DupBoxes == {<<0, 0, 1, 1>>, <<1, 0, 2, 1>>, <<0, 0, 2, 1>>}

DupDetections == Labels \X DupBoxes

DupInit ==
    /\ input \in UNION {[1..k -> DupDetections] : k \in 0..MaxDupDets}
    /\ iou_threshold \in Thresholds
    /\ detections = input
    /\ filtered_detections = <<>>
    /\ detection = NoDetection
    /\ snapshot = <<>>
    /\ scanned = 0
    /\ keep = TRUE
    /\ to_remove = <<>>
    /\ iterations = 0
    /\ pc = "loop"

\* mutant of RemoveFront: the first element is read but not removed
PeekFront(list) == list

\* the list left by detections.remove(0)
RemoveFront(list) == Tail(list)

\* one pass of the while loop
OuterIteration ==
    /\ pc = "loop"
    /\ detections # <<>>
    /\ LET anchor == Head(detections)
           others == RemoveFront(detections)
       IN  \E coins \in [1..Len(others) -> BOOLEAN] :
             LET r == Scan(anchor, others, iou_threshold, coins, 1, <<>>)
             IN  /\ detection' = anchor
                 /\ snapshot' = others
                 /\ scanned' = r.scanned
                 /\ keep' = r.keep
                 /\ to_remove' = r.to_remove
                 /\ detections' = RemoveMarked(others, r.to_remove)
                 /\ filtered_detections' =
                        IF r.keep THEN Append(filtered_detections, anchor)
                                  ELSE filtered_detections
    /\ iterations' = iterations + 1
    /\ UNCHANGED <<input, iou_threshold, pc>>

\* the loop condition fails: Ok(filtered_detections)
Return ==
    /\ pc = "loop"
    /\ detections = <<>>
    /\ pc' = "returned"
    /\ UNCHANGED <<input, iou_threshold, detections, filtered_detections,
                   detection, snapshot, scanned, keep, to_remove, iterations>>

\* ---------------------------------------------------------------- merge
Chars == {"a", " ", "."}

Strings == UNION {[1..k -> Chars] : k \in 0..MaxTextLen}

\* text.split('.') with seg the segment being read
RECURSIVE Split(_, _)
Split(text, seg) ==
    IF text = <<>> THEN <<seg>>
    ELSE IF Head(text) = "." THEN <<seg>> \o Split(Tail(text), <<>>)
    ELSE Split(Tail(text), Append(seg, Head(text)))

RECURSIVE TrimStart(_)
TrimStart(s) == IF s # <<>> /\ Head(s) = " " THEN TrimStart(Tail(s)) ELSE s

RECURSIVE TrimEnd(_)
TrimEnd(s) ==
    IF s # <<>> /\ s[Len(s)] = " " THEN TrimEnd(SubSeq(s, 1, Len(s) - 1)) ELSE s

\* str::trim
Trim(s) == TrimEnd(TrimStart(s))

\* .map(|s| s.trim().to_string()).filter(|s| !s.is_empty())
TextChunks(text) ==
    LET parts == Split(text, <<>>)
    IN  SelectSeq([i \in 1..Len(parts) |-> Trim(parts[i])], LAMBDA c : c # <<>>)

\* for text in texts { chunks.extend(...) }
RECURSIVE CollectChunks(_)
CollectChunks(ts) ==
    IF ts = <<>> THEN <<>> ELSE TextChunks(Head(ts)) \o CollectChunks(Tail(ts))

\* if !chunk.ends_with('.') { chunk + "." } else { chunk }
Terminate(chunk) ==
    IF ~(chunk # <<>> /\ chunk[Len(chunk)] = ".") THEN Append(chunk, ".") ELSE chunk

\* len < n as usize and len == n as usize, for a length len and the i32 n:
\* the cast wraps a negative n to 2^64 + n, above every length a String has
LtUsize(len, limit) == IF limit < 0 THEN TRUE ELSE len < limit
EqUsize(len, limit) == IF limit < 0 THEN FALSE ELSE len = limit

\* the body of the for loop over chunks: the new buffer and flag, the buffer
\* pushed to result (if any) and the branch taken
Accumulate(cur, flag, chunk, limit) ==
    IF LtUsize(Len(cur) + Len(chunk), limit)
    THEN [current |-> cur \o chunk, is_first_exceed |-> flag,
          pushed |-> <<>>, branch |-> "under"]
    ELSE IF EqUsize(Len(cur) + Len(chunk), limit)
    THEN [current |-> <<>>, is_first_exceed |-> TRUE,
          pushed |-> <<cur \o chunk>>, branch |-> "exact"]
    ELSE IF flag
    THEN [current |-> cur \o chunk, is_first_exceed |-> FALSE,
          pushed |-> <<>>, branch |-> "force"]
    ELSE [current |-> chunk, is_first_exceed |-> TRUE,
          pushed |-> IF cur # <<>> THEN <<cur>> ELSE <<>>, branch |-> "restart"]

MergeInit ==
    /\ texts \in UNION {[1..k -> Strings] : k \in 0..MaxTexts}
    /\ n \in (-2)..MaxN
    /\ chunks = <<>>
    /\ current = <<>>
    /\ is_first_exceed = TRUE
    /\ result = <<>>
    /\ forced = 0
    /\ result_forced = <<>>
    /\ mpc = "split"

\* lines 105-126: split the texts, then terminate every fragment
MergeSplit ==
    /\ mpc = "split"
    /\ chunks' = LET cs == CollectChunks(texts)
                 IN  [i \in 1..Len(cs) |-> Terminate(cs[i])]
    /\ mpc' = "loop"
    /\ UNCHANGED <<texts, n, current, is_first_exceed, result, forced, result_forced>>

\* one pass of the for loop over chunks; forced counts the fragments appended
\* to the current buffer although their length added to the buffer's exceeded
\* the limit n, result_forced those of each pushed buffer
MergeStep ==
    /\ mpc = "loop"
    /\ chunks # <<>>
    /\ LET r == Accumulate(current, is_first_exceed, Head(chunks), n)
           over == Len(current) + Len(Head(chunks)) > n
       IN  /\ current' = r.current
           /\ is_first_exceed' = r.is_first_exceed
           /\ result' = result \o r.pushed
           /\ forced' = IF r.branch \in {"under", "force"}
                        THEN forced + (IF over THEN 1 ELSE 0)
                        ELSE 0
           /\ result_forced' = IF r.pushed # <<>> THEN Append(result_forced, forced)
                                                 ELSE result_forced
    /\ chunks' = Tail(chunks)
    /\ UNCHANGED <<texts, n, mpc>>

\* if !current.is_empty() { result.push(current); }  Ok(result)
MergeReturn ==
    /\ mpc = "loop"
    /\ chunks = <<>>
    /\ result' = IF current # <<>> THEN Append(result, current) ELSE result
    /\ result_forced' = IF current # <<>> THEN Append(result_forced, forced)
                                          ELSE result_forced
    /\ mpc' = "returned"
    /\ UNCHANGED <<texts, n, chunks, current, is_first_exceed, forced>>

\* ---------------------------------------------------------------- idle
IouIdle ==
    /\ box1 = <<0, 0, 0, 0>>
    /\ box2 = <<0, 0, 0, 0>>
    /\ inter_area = 0
    /\ box1_area = 0
    /\ box2_area = 0
    /\ union_area = 0
    /\ iou_result = [num |-> 0, den |-> 1]
    /\ ipc = "idle"

StructureIdle ==
    /\ input = <<>>
    /\ iou_threshold = [num |-> 0, den |-> 1]
    /\ detections = <<>>
    /\ filtered_detections = <<>>
    /\ detection = NoDetection
    /\ snapshot = <<>>
    /\ scanned = 0
    /\ keep = TRUE
    /\ to_remove = <<>>
    /\ iterations = 0
    /\ pc = "idle"

MergeIdle ==
    /\ texts = <<>>
    /\ n = 0
    /\ chunks = <<>>
    /\ current = <<>>
    /\ is_first_exceed = TRUE
    /\ result = <<>>
    /\ forced = 0
    /\ result_forced = <<>>
    /\ mpc = "idle"

\* ------------------------------------------------------- specifications
Init == StructureInit /\ IouIdle /\ MergeIdle

Next ==
    \/ OuterIteration /\ UNCHANGED <<iouVars, mergeVars>>
    \/ Return /\ UNCHANGED <<iouVars, mergeVars>>

Spec == Init /\ [][Next]_vars

FairSpec == Spec /\ WF_vars(Next)

DupSpecInit == DupInit /\ IouIdle /\ MergeIdle

DupSpec == DupSpecInit /\ [][Next]_vars

IouSpecInit == IouInit /\ StructureIdle /\ MergeIdle

IouNext == IouCall /\ UNCHANGED <<structureVars, mergeVars>>

IouSpec == IouSpecInit /\ [][IouNext]_vars

MergeSpecInit == MergeInit /\ IouIdle /\ StructureIdle

MergeNext ==
    \/ MergeSplit /\ UNCHANGED <<iouVars, structureVars>>
    \/ MergeStep /\ UNCHANGED <<iouVars, structureVars>>
    \/ MergeReturn /\ UNCHANGED <<iouVars, structureVars>>

MergeSpec == MergeSpecInit /\ [][MergeNext]_vars

\* ------------------------------------------- the specification's notions
\* "a contains b" as the specification defines it
Encloses(a, b) == a[1] <= b[1] /\ a[2] <= b[2] /\ a[3] >= b[3] /\ a[4] >= b[4]

\* the specification's intersection area of two rectangles
Intersection(a, b) ==
    LET w == Min(a[3], b[3]) - Max(a[1], b[1])
        h == Min(a[4], b[4]) - Max(a[2], b[2])
    IN  (IF w > 0 THEN w ELSE 0) * (IF h > 0 THEN h ELSE 0)

\* the area of a rectangle, negative extents clamped to zero
Area(a) ==
    (IF a[3] > a[1] THEN a[3] - a[1] ELSE 0) * (IF a[4] > a[2] THEN a[4] - a[2] ELSE 0)

\* the specification's IoU of a and b is strictly greater than t
OverlapsAbove(a, b, t) ==
    LET i == Intersection(a, b)
        u == Area(a) + Area(b) - i
    IN  IF u = 0 THEN 0 > t.num ELSE i * t.den > t.num * u

Compatible(d1, d2, t) ==
    /\ ~OverlapsAbove(d1[2], d2[2], t)
    /\ ~Encloses(d1[2], d2[2])
    /\ ~Encloses(d2[2], d1[2])

Range(seq) == {seq[i] : i \in 1..Len(seq)}

\* 0 <= q and q <= 1 for a fraction q (den # 0)
Ge0(q) == IF q.den > 0 THEN q.num >= 0 ELSE q.num <= 0
Le1(q) == IF q.den > 0 THEN q.num <= q.den ELSE q.num >= q.den

\* ---------------------------------------------------------------- claims

\* C1: the list returned by structure is mutually compatible: any two entries
\* at distinct positions have an IoU not greater than the threshold and
\* neither rectangle contains the other.
C1_MutuallyCompatible ==
    \A i, j \in 1..Len(filtered_detections) :
        i # j => Compatible(filtered_detections[i], filtered_detections[j],
                            iou_threshold)

C1_Witness ==
    /\ pc = "returned"
    /\ Len(input) = 3
    /\ Len(filtered_detections) = 2
    /\ \E i, j \in 1..3 : i # j /\ ~Compatible(input[i], input[j], iou_threshold)

ConflictingPair ==
    /\ Len(input) = 2
    /\ OverlapsAbove(input[1][2], input[2][2], iou_threshold)
    /\ ~Encloses(input[1][2], input[2][2])
    /\ ~Encloses(input[2][2], input[1][2])

\* C2: for a two-element input whose IoU exceeds the threshold and where
\* neither rectangle contains the other, structure returns exactly one of the
\* two detections, and both the run that keeps the first and the run that
\* keeps the second are possible.
C2_ExactlyOneOfPair ==
    ConflictingPair =>
        /\ pc = "returned" =>
              \/ filtered_detections = <<input[1]>>
              \/ filtered_detections = <<input[2]>>
        /\ iterations = 0 =>
              /\ ENABLED (OuterIteration /\ keep')
              /\ ENABLED (OuterIteration /\ ~keep')
        /\ (iterations = 1 /\ ~keep) => detections = <<input[2]>>

C2_Witness ==
    /\ ConflictingPair
    /\ pc = "returned"
    /\ filtered_detections = <<input[2]>>

PairwiseDisjoint ==
    \A i, j \in 1..Len(input) :
        i # j => /\ Intersection(input[i][2], input[j][2]) = 0
                 /\ ~Encloses(input[i][2], input[j][2])

\* C3 as stated: pairwise non-overlapping, non-containing input is returned
\* unchanged for every threshold value.
C3_DisjointUnchanged_AnyThreshold ==
    (pc = "returned" /\ PairwiseDisjoint) => filtered_detections = input

\* C3 amended: pairwise non-overlapping, non-containing input is returned
\* unchanged, same elements in the same order, for every threshold >= 0 and
\* every resolution of the coin flips.
C3_DisjointUnchanged ==
    (pc = "returned" /\ PairwiseDisjoint /\ iou_threshold.num >= 0)
        => filtered_detections = input

C3_Witness ==
    /\ pc = "returned"
    /\ Len(input) = 3
    /\ PairwiseDisjoint
    /\ iou_threshold.num = 0
    /\ filtered_detections = input

\* the input is a chain of strictly nested rectangles, none of whose pairs
\* has an IoU above the threshold
NestedChain ==
    /\ Len(input) \in {2, 3}
    /\ \A i, j \in 1..Len(input) :
          i # j => /\ input[i][2] # input[j][2]
                   /\ Encloses(input[i][2], input[j][2])
                        \/ Encloses(input[j][2], input[i][2])
                   /\ ~OverlapsAbove(input[i][2], input[j][2], iou_threshold)

Outermost(k) == \A j \in 1..Len(input) : Encloses(input[k][2], input[j][2])

\* C4: for a chain of two or three strictly nested rectangles with no pair
\* above the threshold, structure returns exactly the one-element list
\* holding the outermost detection, whatever the input order.
C4_NestedChainKeepsOutermost ==
    (pc = "returned" /\ NestedChain) =>
        \E k \in 1..Len(input) :
            Outermost(k) /\ filtered_detections = <<input[k]>>

C4_Witness ==
    /\ pc = "returned"
    /\ NestedChain
    /\ Len(input) = 3
    /\ Outermost(2)
    /\ Encloses(input[1][2], input[3][2])
    /\ filtered_detections = <<input[2]>>

\* C5: structure always terminates: the working list strictly shrinks on
\* each outer iteration, there are at most Len(input) outer iterations, a
\* result is returned, and the empty input gives the empty result.
C5_Terminates ==
    /\ [](Len(detections) + iterations <= Len(input))
    /\ [][pc = "loop" => Len(detections') < Len(detections) \/ pc' = "returned"]_vars
    /\ []((pc = "returned" /\ input = <<>>) => filtered_detections = <<>>)
    /\ <>(pc = "returned")

C5_Witness ==
    /\ pc = "returned"
    /\ Len(input) = 3
    /\ iterations = 3

\* C8: after each outer iteration every working-list entry value-equal to an
\* entry marked during the scan is removed, copies the scan never visited and
\* the case of a dropped anchor included; every other entry stays, in its
\* original relative order.
C8_RemovalByValue ==
    iterations > 0 =>
        /\ scanned <= Len(snapshot)
        /\ \A k \in 1..Len(to_remove) :
              \E i \in 1..scanned : snapshot[i] = to_remove[k]
        /\ \A i \in 1..Len(detections) : detections[i] \notin Range(to_remove)
        /\ detections = SelectSeq(snapshot, LAMBDA x : x \notin Range(to_remove))

\* the scan marked the first entry, stopped at the second and dropped the
\* anchor; the third entry, a copy of the first, was never visited and is
\* removed with it, the second stays
C8_Witness ==
    /\ iterations = 1
    /\ ~keep
    /\ Len(snapshot) = 3
    /\ scanned = 2
    /\ snapshot[3] = snapshot[1]
    /\ snapshot[2] # snapshot[1]
    /\ to_remove = <<snapshot[1]>>
    /\ detections = <<snapshot[2]>>

\* C10: for every non-empty input, structure returns a non-empty list.
C10_NonEmptyResult ==
    (pc = "returned" /\ input # <<>>) => filtered_detections # <<>>

\* C6: iou(a,b) = iou(b,a), 0 <= iou(a,b) <= 1, and the result is 0 when the
\* computed union area is 0, for all rectangles, degenerate and inverted
\* ones included.
C6_IouSymmetricBounded ==
    ipc = "returned" =>
        /\ iou_result.den # 0
        /\ iou_result = iou(box2, box1)
        /\ Ge0(iou_result)
        /\ Le1(iou_result)
        /\ union_area = 0 => iou_result.num = 0

C6_Witness ==
    /\ ipc = "returned"
    /\ box1 = box2
    /\ box1[1] = box1[3]
    /\ box1[2] = box1[4]
    /\ union_area = 0
    /\ iou_result.num = 0

\* C9: no area the overlap metric computes is negative: each rectangle's own
\* area, the intersection area and the union area are all >= 0.
C9_NoNegativeArea ==
    ipc = "returned" =>
        /\ box1_area >= 0
        /\ box2_area >= 0
        /\ inter_area >= 0
        /\ union_area >= 0

\* the fragment now read does not fit: its length added to the buffer's
\* length exceeds the limit
OverLimit == mpc = "loop" /\ chunks # <<>> /\ Len(current) + Len(Head(chunks)) > n

\* C7: for every input and limit, an over-limit fragment is appended to the
\* current buffer only if no over-limit fragment was appended to it since the
\* buffer was started, so the current buffer and every pushed buffer hold at
\* most one force-appended fragment.
C7_AtMostOneForced ==
    /\ forced <= 1
    /\ \A i \in 1..Len(result_forced) : result_forced[i] <= 1

\* C7 for the limits n >= 0 only: at most one force-appended fragment per
\* buffer, and the next over-limit fragment pushes the buffer to the output
\* and starts a new buffer with that fragment.
C7_NonNegativeLimit ==
    /\ [](n >= 0 => C7_AtMostOneForced)
    /\ [][(n >= 0 /\ OverLimit /\ current' = current \o Head(chunks)) => forced = 0]_vars
    /\ [][(n >= 0 /\ OverLimit /\ forced = 1) =>
             /\ result' = Append(result, current)
             /\ current' = Head(chunks)]_vars

====
